---- MODULE Spec2Model ----
(***************************************************************************)
(* A model of the browser chat application: the Home page with its four    *)
(* useLocalStorage values, the ApiKeyManager, the ModelSelector and the    *)
(* ChatInterface with its asynchronous handleSubmit.                       *)
(*                                                                         *)
(* A JavaScript string is a sequence of one-character strings, so that     *)
(* trim, startsWith, length and concatenation are computed as the code     *)
(* computes them.  A Date is a record [type |-> "Date", ms |-> n]; its     *)
(* JSON form is the string [type |-> "string", ms |-> n].                  *)
(*                                                                         *)
(* The body of an OpenAI response is a sequence of units (a newline, the    *)
(* 'data: ' prefix, a JSON text, a character), which the network cuts      *)
(* anywhere; callOpenAIStream is computed on it unit by unit.              *)
(*                                                                         *)
(* React re-renders between two events, so a handler sees the state of the *)
(* moment it is called; a suspended handleSubmit keeps what it captured    *)
(* (newMessages, the adapter and its arguments) in its entry of requests.  *)
(*                                                                         *)
(* An action is a handler as the code defines it.  A control that is not   *)
(* rendered (Clear Chat, Clear Key) cannot call its handler; a control     *)
(* that is rendered with the disabled attribute still has its handler, and *)
(* the handler's own guard decides what a call does.                       *)
(***************************************************************************)
EXTENDS Integers, Sequences, FiniteSets, TLC

VARIABLES
    modelProvider,     \* Home: useLocalStorage('chatbot-model')
    openaiApiKey,      \* Home: useLocalStorage('openai-api-key')
    geminiApiKey,      \* Home: useLocalStorage('gemini-api-key')
    messages,          \* Home: useLocalStorage('chatbot-messages')
    localStorage,      \* window.localStorage: one item per key
    inputValue,        \* ApiKeyManager: text of the key field
    error,             \* ApiKeyManager: inline error text
    input,             \* ChatInterface: text of the message field
    isLoading,         \* ChatInterface
    isStreaming,       \* ChatInterface
    streamingMessage,  \* ChatInterface: the transient buffer
    requests,          \* the suspended handleSubmit calls, oldest first
    now,               \* the value Date.now() returned when it was last read
    enteredFor,        \* history: the provider that was selected when the text of
                       \* the key field was entered
    cleared,           \* history: handleClearChat ran and no submit was accepted since
    writeFailures,     \* history: how many localStorage.setItem calls have raised
    lastEvent          \* history: the handler that ran in the last step: its name,
                       \* its outcome and the handleSubmit call it belongs to

vars == <<modelProvider, openaiApiKey, geminiApiKey, messages, localStorage,
          inputValue, error, input, isLoading, isStreaming, streamingMessage,
          requests, now, enteredFor, cleared, writeFailures, lastEvent>>

homeVars == <<modelProvider, openaiApiKey, geminiApiKey, messages, localStorage, writeFailures>>
keyVars  == <<inputValue, error, enteredFor>>
chatVars == <<input, isLoading, isStreaming, streamingMessage>>

----------------------------------------------------------------------------
(* Bounds of the model *)

\* longest Conversation: a submit is taken only while its two messages still fit
MaxMessages == 4
\* largest value of the millisecond clock
MaxClock == 1
\* localStorage.setItem calls that raise in one behaviour
MaxWriteFailures == 1

----------------------------------------------------------------------------
(* Strings *)

\* String.prototype.trim over the whitespace the inputs contain
IsSpace(c) == c = " "

RECURSIVE trimStart(_)
trimStart(s) ==
    IF s = <<>> THEN s
    ELSE IF IsSpace(Head(s)) THEN trimStart(Tail(s)) ELSE s

RECURSIVE trimEnd(_)
trimEnd(s) ==
    IF s = <<>> THEN s
    ELSE IF IsSpace(s[Len(s)]) THEN trimEnd(SubSeq(s, 1, Len(s) - 1)) ELSE s

trim(s) == trimEnd(trimStart(s))

startsWith(s, p) == Len(s) >= Len(p) /\ SubSeq(s, 1, Len(p)) = p

RECURSIVE Concat(_)
Concat(ss) == IF ss = <<>> THEN <<>> ELSE Head(ss) \o Concat(Tail(ss))

----------------------------------------------------------------------------
(* Values the user and the network can supply *)

Providers == {"openai", "gemini"}

\* a key with the OpenAI prefix, longer than 10 characters
KeySkLong == <<"s", "k", "-", "1", "2", "3", "4", "5", "6", "7", "8">>
\* a key with the OpenAI prefix, not longer than 10 characters
KeySkShort == <<"s", "k", "-", "1">>
\* a key without the OpenAI prefix, longer than 10 characters
KeyPlainLong == <<"A", "I", "z", "a", "1", "2", "3", "4", "5", "6", "7">>

\* texts typed into the key field
KeyTexts == {<<>>, <<" ">>, KeySkLong, KeySkShort, KeyPlainLong}

\* key texts at the edges of the format checks: blanks only but longer than 10
\* characters, the OpenAI prefix alone, a part of it, the prefix behind a blank
\* (12 characters), and 10 characters without the prefix
KeyBlankLong == <<" ", " ", " ", " ", " ", " ", " ", " ", " ", " ", " ">>
KeySkOnly == <<"s", "k", "-">>
KeySkPart == <<"s", "k">>
KeySkBehindBlank == <<" ">> \o KeySkLong
KeyPlainTen == <<"A", "I", "z", "a", "1", "2", "3", "4", "5", "6">>
KeyEdgeTexts ==
    KeyTexts \cup {KeyBlankLong, KeySkOnly, KeySkPart, KeySkBehindBlank, KeyPlainTen}

\* texts typed into the message field
InputTexts == {<<>>, <<" ">>, <<" ", "h", "i", " ">>}

\* the text a streamed chunk carries; <<>> is a chunk without extractable text
ChunkTexts == {<<>>, <<"a">>, <<"b">>}

\* the response streams the providers send, as the chunk texts in order; a stream
\* may also end or fail after any prefix of one of these
Streams == { <<<<"a">>, <<"b">>>>, <<<<>>, <<"a">>>> }

IsPrefix(s, t) == Len(s) <= Len(t) /\ SubSeq(t, 1, Len(s)) = s

\* the instants of the millisecond clock
Instants == 0..MaxClock

\* of the instants a specification admits, those at which Date.now() can be read
\* next: time does not run backwards
Later(instants) == {t \in instants : t >= now}

\* values an adapter can raise: an Error with a message, or a value that is no Error
ThrownValues ==
    { [isError |-> TRUE,  message |-> <<"4", "0", "1">>],
      [isError |-> FALSE, message |-> <<>>] }

\* The body of an OpenAI response is a text of server-sent events.  It is kept
\* as the sequence of its units: a newline, the field name with its blank, a
\* JSON text or a piece of one, a character of the answer.  The network cuts a
\* body between any two units.
NL == "\n"
DataPrefix == "data: "
Done == "[DONE]"
\* {"choices":[{"delta":{"content":"  and  "}}]}  around the text of a delta
ContentOpen == "{\"choices\":[{\"delta\":{\"content\":\""
ContentClose == "\"}}]}"
\* a delta without content, an object without the choices field, and a text
\* that is not JSON
RoleDelta == "{\"choices\":[{\"delta\":{\"role\":\"assistant\"}}]}"
NoFields == "{\"error\":{}}"
NotJSON == "{\"choices\":[{\"del"

\* the event that carries one text delta, with the newline that ends its line
sseLine(text) == <<DataPrefix, ContentOpen>> \o text \o <<ContentClose, NL>>

\* a response stream of text deltas as OpenAI sends it: one event in each read
sseStream(stream) == [i \in 1..Len(stream) |-> sseLine(stream[i])]

\* OpenAI response bodies, as their lines, each with the newline that ends it.
\* A delta, the blank line that ends an event, and the [DONE] event.
LinesDone == <<sseLine(<<"a">>), <<NL>>, <<DataPrefix, Done, NL>>>>
\* Three events without extractable text and a delta; the stream then ends,
\* without [DONE], on a delta whose line has no newline after it.
LinesOpenEnd ==
    <<<<DataPrefix, RoleDelta, NL>>, <<DataPrefix, NotJSON, NL>>, <<DataPrefix, NoFields, NL>>,
      sseLine(<<"a">>), <<DataPrefix, ContentOpen, "b", ContentClose>>>>

\* A delta, the [DONE] event, and a delta behind it.
LinesAfterDone == <<sseLine(<<"a">>), <<DataPrefix, Done, NL>>, sseLine(<<"b">>)>>
BodyAfterDone == Concat(LinesAfterDone)

BodyDone == Concat(LinesDone)
BodyOpenEnd == Concat(LinesOpenEnd)
Bodies == {BodyDone, BodyOpenEnd}

\* every way the network can cut the bodies into the values of reader.read()
Pieces(bodies) ==
    UNION {{SubSeq(b, i, j) : i \in 1..Len(b), j \in 1..Len(b)} \ {<<>>} : b \in bodies}

\* What a specification lets the environment supply: the outcomes of
\* localStorage.setItem (TRUE: it stores, FALSE: it raises), the texts typed into
\* the key field and into the message field, the response streams, the values an
\* adapter raises and the instants the clock shows.  The streams are the texts of
\* the chunks in order: Gemini delivers them as the chunks of its SDK, OpenAI as
\* the events of a body, one event in each read unless a specification says
\* otherwise.
Env(writes, keyTexts, inputTexts, streams, thrownValues, instants) ==
    [writes |-> writes, keyTexts |-> keyTexts, inputTexts |-> inputTexts,
     streams |-> streams, thrownValues |-> thrownValues, instants |-> instants,
     bodies |-> {Concat(sseStream(stream)) : stream \in streams},
     pieces |-> {sseLine(text) : text \in ChunkTexts}]

----------------------------------------------------------------------------
(* utils/api.ts: validateApiKey *)

\* mutant: every key text passes
validateApiKeyAnyText(provider, apiKey) == TRUE

\* mutant: the key is tested for '' only, not trimmed
validateApiKeyUntrimmed(provider, apiKey) ==
    IF apiKey = <<>> THEN FALSE
    ELSE IF provider = "openai" THEN startsWith(apiKey, <<"s", "k", "-">>)
    ELSE IF provider = "gemini" THEN Len(apiKey) > 10
    ELSE FALSE

\* mutant: only the blank test is made
validateApiKeyBlankOnly(provider, apiKey) == ~(apiKey = <<>> \/ trim(apiKey) = <<>>)

validateApiKey(provider, apiKey) ==
    IF apiKey = <<>> \/ trim(apiKey) = <<>> THEN FALSE
    ELSE IF provider = "openai" THEN startsWith(apiKey, <<"s", "k", "-">>)
    ELSE IF provider = "gemini" THEN Len(apiKey) > 10
    ELSE FALSE

----------------------------------------------------------------------------
(* utils/api.ts: the read loop of callOpenAIStream *)

\* buffer.split('\n'): the lines between the newlines, the last one being what
\* follows the last newline
RECURSIVE splitLines(_, _)
splitLines(text, line) ==
    IF text = <<>> THEN <<line>>
    ELSE IF Head(text) = NL THEN <<line>> \o splitLines(Tail(text), <<>>)
    ELSE splitLines(Tail(text), Append(line, Head(text)))

split(text) == splitLines(text, <<>>)

\* JSON.parse(data) followed by parsed.choices[0]?.delta?.content: the content,
\* undefined, or an exception (a SyntaxError of JSON.parse, a TypeError of
\* reading [0] of undefined)
contentOf(data) ==
    IF Len(data) >= 2 /\ Head(data) = ContentOpen /\ data[Len(data)] = ContentClose
       /\ \A k \in 2..(Len(data) - 1) : data[k] \in {"a", "b"}
    THEN [raised |-> FALSE, content |-> SubSeq(data, 2, Len(data) - 1)]
    ELSE IF data = <<RoleDelta>>
    THEN [raised |-> FALSE, content |-> <<>>]
    ELSE [raised |-> TRUE, content |-> <<>>]

\* mutant: a data line that cannot be read ends the sequence
RECURSIVE forLinesStoppingAtInvalid(_)
forLinesStoppingAtInvalid(lines) ==
    IF lines = <<>> THEN [yields |-> <<>>, done |-> FALSE]
    ELSE LET line == Head(lines)
             data == Tail(line)
             rest == forLinesStoppingAtInvalid(Tail(lines))
         IN  IF ~startsWith(line, <<DataPrefix>>) THEN rest
             ELSE IF data = <<Done>> \/ contentOf(data).raised
                  THEN [yields |-> <<>>, done |-> TRUE]
             ELSE IF contentOf(data).content # <<>>
                  THEN [yields |-> <<contentOf(data).content>> \o rest.yields, done |-> rest.done]
             ELSE rest

\* for (const line of lines): the fragments yielded, and whether the [DONE] line
\* was met, at which the generator returns
RECURSIVE forLines(_)
forLines(lines) ==
    IF lines = <<>> THEN [yields |-> <<>>, done |-> FALSE]
    ELSE LET line == Head(lines)
             \* line.slice(6): what follows 'data: '
             data == Tail(line)
             rest == forLines(Tail(lines))
         IN  IF ~startsWith(line, <<DataPrefix>>) THEN rest
             ELSE IF data = <<Done>> THEN [yields |-> <<>>, done |-> TRUE]
             ELSE IF ~contentOf(data).raised /\ contentOf(data).content # <<>>
                  THEN [yields |-> <<contentOf(data).content>> \o rest.yields, done |-> rest.done]
             ELSE rest

\* mutant: what follows the last newline of a read is not kept for the next one
readValueWithoutBuffer(buffer, value) ==
    LET lines == split(value)
        processed == forLines(SubSeq(lines, 1, Len(lines) - 1))
    IN  [value |-> value, buffer |-> lines[Len(lines)],
         yields |-> processed.yields, done |-> processed.done]

\* one turn of while (true) after reader.read() returned value: the new buffer,
\* the fragments yielded and whether the generator returned
readValue(buffer, value) ==
    LET lines == split(buffer \o value)
        processed == forLines(SubSeq(lines, 1, Len(lines) - 1))
    IN  [value |-> value, buffer |-> lines[Len(lines)],
         yields |-> processed.yields, done |-> processed.done]

----------------------------------------------------------------------------
(* hooks/useLocalStorage.ts and the JSON conversions it applies *)

StorageKeys == {"chatbot-model", "openai-api-key", "gemini-api-key", "chatbot-messages"}

\* localStorage.getItem returns null for a key without an item
NoItem == [present |-> FALSE]

\* Date.prototype.toJSON: the ISO text of the instant
toJSON(timestamp) == [type |-> "string", ms |-> timestamp.ms]

\* JSON.stringify of a string: the quoted text
JSONstringifyString(s) == [kind |-> "string", value |-> s]

\* JSON.stringify of a Message[]: every Date becomes its ISO text
JSONstringifyMessages(ms) ==
    [kind |-> "array",
     value |-> [i \in 1..Len(ms) |->
                  [id |-> ms[i].id, role |-> ms[i].role, content |-> ms[i].content,
                   timestamp |-> toJSON(ms[i].timestamp)]]]

\* JSON.parse: the value the text denotes; an ISO text stays a string
JSONparse(text) == text.value

\* mutant: the stored item is not looked at
ReadStoredIgnoringItem(item, initialValue) == initialValue

\* the initialiser of useState in useLocalStorage: item ? JSON.parse(item) :
\* initialValue, inside try/catch.  The text of an item is valid JSON (kind
\* "string" or "array"), the empty text (kind "empty", which is falsy) or a text
\* JSON.parse raises on (kind "invalid").
ReadStored(item, initialValue) ==
    IF ~item.present THEN initialValue
    ELSE IF item.text.kind \in {"string", "array"} THEN JSONparse(item.text)
    ELSE initialValue

\* window.localStorage.setItem(key, text); ok = FALSE is the call raising, which
\* setValue catches and logs after it has called setStoredValue
setItem(key, text, ok) ==
    /\ ok \/ writeFailures < MaxWriteFailures
    /\ localStorage' = IF ok THEN [localStorage EXCEPT ![key] = [present |-> TRUE, text |-> text]]
                       ELSE localStorage
    /\ writeFailures' = IF ok THEN writeFailures ELSE writeFailures + 1

\* the four setters Home obtains from useLocalStorage
setModelProvider(value, ok) ==
    /\ modelProvider' = value
    /\ setItem("chatbot-model", JSONstringifyString(value), ok)
    /\ UNCHANGED <<openaiApiKey, geminiApiKey, messages>>

setOpenaiApiKey(value, ok) ==
    /\ openaiApiKey' = value
    /\ setItem("openai-api-key", JSONstringifyString(value), ok)
    /\ UNCHANGED <<modelProvider, geminiApiKey, messages>>

setGeminiApiKey(value, ok) ==
    /\ geminiApiKey' = value
    /\ setItem("gemini-api-key", JSONstringifyString(value), ok)
    /\ UNCHANGED <<modelProvider, openaiApiKey, messages>>

\* mutant: the Conversation is kept in memory only
setMessagesInMemoryOnly(value, ok) ==
    /\ messages' = value
    /\ ok
    /\ UNCHANGED <<modelProvider, openaiApiKey, geminiApiKey, localStorage, writeFailures>>

setMessages(value, ok) ==
    /\ messages' = value
    /\ setItem("chatbot-messages", JSONstringifyMessages(value), ok)
    /\ UNCHANGED <<modelProvider, openaiApiKey, geminiApiKey>>

----------------------------------------------------------------------------
(* app/page.tsx: Home *)

\* mutant: the OpenAI key whatever the selected provider is
currentApiKeyOpenaiOnly == openaiApiKey

currentApiKey == IF modelProvider = "openai" THEN openaiApiKey ELSE geminiApiKey

\* mutant: the key is stored as the OpenAI key whatever the selected provider is
setCurrentApiKeyOpenaiOnly(value, ok) == setOpenaiApiKey(value, ok)

setCurrentApiKey(value, ok) ==
    IF modelProvider = "openai" THEN setOpenaiApiKey(value, ok) ELSE setGeminiApiKey(value, ok)

\* the handler is not a step of a handleSubmit call
NoRequest == [adapter |-> "none"]

Event(op, ok, req) == [op |-> op, ok |-> ok, req |-> req]

Init ==
    /\ modelProvider = "openai"
    /\ openaiApiKey = <<>>
    /\ geminiApiKey = <<>>
    /\ messages = <<>>
    /\ localStorage = [k \in StorageKeys |-> NoItem]
    /\ inputValue = <<>>
    /\ error = ""
    /\ enteredFor = "openai"
    /\ input = <<>>
    /\ isLoading = FALSE
    /\ isStreaming = FALSE
    /\ streamingMessage = <<>>
    /\ requests = <<>>
    /\ now = 0
    /\ cleared = FALSE
    /\ writeFailures = 0
    /\ lastEvent = Event("load", TRUE, NoRequest)

\* the texts the item of a key can hold when the page is loaded: what was stored
\* by a former visit, the empty text, and a text that is not JSON
StoredTexts(key) ==
    {[kind |-> "empty"], [kind |-> "invalid"]} \cup
    (IF key = "chatbot-model" THEN {JSONstringifyString("gemini")}
     ELSE IF key = "chatbot-messages"
          THEN {JSONstringifyMessages(<<>>),
                JSONstringifyMessages(<<[id |-> 0, role |-> "user", content |-> <<"h", "i">>,
                                         timestamp |-> [type |-> "Date", ms |-> 0]]>>)}
     ELSE {JSONstringifyString(KeySkLong)})

StoredItems(key) == {NoItem} \cup {[present |-> TRUE, text |-> text] : text \in StoredTexts(key)}

\* the four useLocalStorage initialisers of Home and the useState initialisers of
\* ApiKeyManager and ChatInterface, as they run when the page is mounted
mount ==
    /\ modelProvider' = ReadStored(localStorage["chatbot-model"], "openai")
    /\ openaiApiKey' = ReadStored(localStorage["openai-api-key"], <<>>)
    /\ geminiApiKey' = ReadStored(localStorage["gemini-api-key"], <<>>)
    /\ messages' = ReadStored(localStorage["chatbot-messages"], <<>>)
    /\ inputValue' = (IF modelProvider' = "openai" THEN openaiApiKey' ELSE geminiApiKey')
    /\ error' = ""
    /\ enteredFor' = modelProvider'
    /\ input' = <<>>
    /\ isLoading' = FALSE
    /\ isStreaming' = FALSE
    /\ streamingMessage' = <<>>

\* message.timestamp.toLocaleTimeString() in the render of ChatInterface: a
\* method of Date, which a string does not have.  The render raises a TypeError
\* for a Message whose timestamp is no Date, and the page shows the error screen
\* in place of the application: no handler can be called.
renders == \A i \in 1..Len(messages) : messages[i].timestamp.type = "Date"

\* the first load: the page is mounted over a localStorage that former visits
\* (or anything else on the origin) left behind
InitLoad ==
    /\ \E model \in StoredItems("chatbot-model"), openai \in StoredItems("openai-api-key"),
          gemini \in StoredItems("gemini-api-key"), chat \in StoredItems("chatbot-messages") :
            localStorage = [k \in StorageKeys |->
                              CASE k = "chatbot-model" -> model
                                [] k = "openai-api-key" -> openai
                                [] k = "gemini-api-key" -> gemini
                                [] k = "chatbot-messages" -> chat]
    /\ modelProvider = ReadStored(localStorage["chatbot-model"], "openai")
    /\ openaiApiKey = ReadStored(localStorage["openai-api-key"], <<>>)
    /\ geminiApiKey = ReadStored(localStorage["gemini-api-key"], <<>>)
    /\ messages = ReadStored(localStorage["chatbot-messages"], <<>>)
    /\ inputValue = currentApiKey
    /\ error = ""
    /\ enteredFor = modelProvider
    /\ input = <<>>
    /\ isLoading = FALSE
    /\ isStreaming = FALSE
    /\ streamingMessage = <<>>
    /\ requests = <<>>
    /\ now = 0
    /\ cleared = FALSE
    /\ writeFailures = 0
    /\ lastEvent = Event("load", TRUE, NoRequest)

\* the user reloads the page (or closes and reopens it): the suspended
\* handleSubmit calls go with the page that ran them
load(E) ==
    /\ mount
    /\ requests' = <<>>
    /\ lastEvent' = Event("load", TRUE, NoRequest)
    /\ UNCHANGED <<localStorage, writeFailures, now, cleared>>

----------------------------------------------------------------------------
(* components/ModelSelector.tsx *)

onModelChange(E) ==
    \E model \in Providers, ok \in E.writes :
        /\ setModelProvider(model, ok)
        /\ lastEvent' = Event("onModelChange", TRUE, NoRequest)
        /\ UNCHANGED <<keyVars, chatVars, requests, now, cleared>>

----------------------------------------------------------------------------
(* components/ApiKeyManager.tsx *)

hasKey == Len(currentApiKey) > 0

onKeyChange(E) ==
    \E value \in E.keyTexts :
        /\ inputValue' = value
        /\ error' = ""
        /\ enteredFor' = modelProvider
        /\ lastEvent' = Event("onKeyChange", TRUE, NoRequest)
        /\ UNCHANGED <<homeVars, chatVars, requests, now, cleared>>

handleSave(E) ==
    /\ lastEvent' = Event("handleSave", validateApiKey(modelProvider, inputValue), NoRequest)
    /\ IF ~validateApiKey(modelProvider, inputValue)
       THEN /\ error' = IF modelProvider = "openai"
                        THEN "Please enter a valid OpenAI API key (starts with sk-)"
                        ELSE "Please enter a valid Gemini API key"
            /\ UNCHANGED <<homeVars, inputValue, enteredFor>>
       ELSE /\ error' = ""
            /\ \E ok \in E.writes : setCurrentApiKey(inputValue, ok)
            /\ UNCHANGED <<inputValue, enteredFor>>
    /\ UNCHANGED <<chatVars, requests, now, cleared>>

\* the Clear Key button is rendered only when hasKey
handleClear(E) ==
    /\ hasKey
    /\ inputValue' = <<>>
    /\ error' = ""
    /\ enteredFor' = modelProvider
    /\ \E ok \in E.writes : setCurrentApiKey(<<>>, ok)
    /\ lastEvent' = Event("handleClear", TRUE, NoRequest)
    /\ UNCHANGED <<chatVars, requests, now, cleared>>

----------------------------------------------------------------------------
(* components/ChatInterface.tsx *)

\* new Date()
Date(ms) == [type |-> "Date", ms |-> ms]

\* a Message; the id is Date.now().toString(), kept here as the number it prints
Message(id, role, content, timestamp) ==
    [id |-> id, role |-> role, content |-> content, timestamp |-> timestamp]

\* mutants of the guard: the input is not trimmed, the key is not looked at, a
\* request in flight is not looked at
submitAcceptedUntrimmed == input # <<>> /\ currentApiKey # <<>> /\ ~isLoading
submitAcceptedWithoutKey == trim(input) # <<>> /\ ~isLoading
submitAcceptedWhileLoading == trim(input) # <<>> /\ currentApiKey # <<>>

\* the guard of handleSubmit: if (!input.trim() || !apiKey || isLoading) return;
submitAccepted == trim(input) # <<>> /\ currentApiKey # <<>> /\ ~isLoading

\* mutant: only the message just submitted is handed to the adapter
toApiMessagesLatestOnly(ms) ==
    <<[role |-> ms[Len(ms)].role, content |-> ms[Len(ms)].content]>>

\* msg => ({ role: msg.role, content: msg.content }), for both providers
toApiMessages(ms) == [i \in 1..Len(ms) |-> [role |-> ms[i].role, content |-> ms[i].content]]

\* mutant: the whole list is made the history, the latest message included
geminiHistoryWholeList(ms) ==
    [i \in 1..Len(ms) |->
        [role |-> IF ms[i].role = "user" THEN "user" ELSE "model",
         parts |-> <<[text |-> ms[i].content]>>]]

\* callGeminiStream: messages.slice(0, -1).map(msg => ({ role: msg.role === 'user'
\* ? 'user' : 'model', parts: [{ text: msg.content }] })), the history of startChat
geminiHistory(ms) ==
    [i \in 1..(Len(ms) - 1) |->
        [role |-> IF ms[i].role = "user" THEN "user" ELSE "model",
         parts |-> <<[text |-> ms[i].content]>>]]

\* callGeminiStream: messages[messages.length - 1].content, the argument of
\* chat.sendMessageStream
geminiLastMessage(ms) == ms[Len(ms)].content

\* if (content) yield content;  if (chunkText) yield chunkText;
yieldsFragment(adapter, chunkText) == chunkText # <<>>

\* mutant: the chunk is put in front of the text received so far
accumulateInFront(fullResponse, chunk) == chunk \o fullResponse

\* fullResponse += chunk
accumulate(fullResponse, chunk) == fullResponse \o chunk

\* mutant: only the user message of this submit is kept in front of the answer
commitWithoutPrior(newMessages, message) == <<newMessages[Len(newMessages)], message>>

\* mutant: the committed message is put in front of the Conversation
commitInFront(newMessages, message) == <<message>> \o newMessages

\* [...newMessages, assistantMessage] and [...newMessages, errorMessage]
commit(newMessages, message) == Append(newMessages, message)

\* `Error: ${error instanceof Error ? error.message : 'Unknown error occurred'}`
ErrorPrefix == <<"E", "r", "r", "o", "r", ":", " ">>
UnknownError ==
    <<"U", "n", "k", "n", "o", "w", "n", " ", "e", "r", "r", "o", "r", " ",
      "o", "c", "c", "u", "r", "r", "e", "d">>
\* mutant: error.message is read without the instanceof test
errorContentOfAnyValue(thrown) == ErrorPrefix \o thrown.message

errorContent(thrown) == ErrorPrefix \o (IF thrown.isError THEN thrown.message ELSE UnknownError)

RemoveAt(seq, i) == SubSeq(seq, 1, i - 1) \o SubSeq(seq, i + 1, Len(seq))

onInputChange(E) ==
    \E value \in E.inputTexts :
        /\ input' = value
        /\ lastEvent' = Event("onInputChange", TRUE, NoRequest)
        /\ UNCHANGED <<homeVars, keyVars, isLoading, isStreaming, streamingMessage,
                       requests, now, cleared>>

\* handleSubmit up to its first suspension in for await: the guard, the user
\* message, the adapter call with the props of this render
handleSubmit(E) ==
    IF ~submitAccepted
    THEN /\ lastEvent' = Event("handleSubmit", FALSE, NoRequest)
         /\ UNCHANGED <<homeVars, keyVars, chatVars, requests, now, cleared>>
    ELSE /\ Len(messages) + 2 <= MaxMessages
         /\ \E ok \in E.writes, t \in Later(E.instants) : \E later \in Later(E.instants) \cap {t, t + 1} :
              LET userMessage == Message(t, "user", trim(input), Date(t))
                  newMessages == Append(messages, userMessage)
                  request ==
                    [\* the closure of this call of handleSubmit
                     newMessages |-> newMessages,
                     assistantMessageId |-> later + 1,
                     fullResponse |-> <<>>,
                     \* streamGenerator: the adapter called and its arguments
                     adapter |-> IF modelProvider = "openai"
                                 THEN "callOpenAIStream" ELSE "callGeminiStream",
                     apiKey |-> currentApiKey,
                     sent |-> toApiMessages(newMessages),
                     \* what callGeminiStream makes of the list: the history of
                     \* the chat it starts and the message it sends (both empty
                     \* for callOpenAIStream, which starts no chat)
                     history |-> IF modelProvider = "openai" THEN <<>>
                                 ELSE geminiHistory(toApiMessages(newMessages)),
                     message |-> IF modelProvider = "openai" THEN <<>>
                                 ELSE geminiLastMessage(toApiMessages(newMessages)),
                     \* what the response stream has delivered so far (the chunks
                     \* of Gemini, the text of the OpenAI body) and the buffer of
                     \* callOpenAIStream
                     received |-> <<>>,
                     buffer |-> <<>>,
                     \* history: the fragments the adapter has yielded, the
                     \* Conversation and the input at the submit
                     yielded |-> <<>>,
                     prior |-> messages,
                     typed |-> input]
              IN  /\ setMessages(newMessages, ok)
                  /\ input' = <<>>
                  /\ isLoading' = TRUE
                  /\ isStreaming' = TRUE
                  /\ streamingMessage' = <<>>
                  /\ now' = later
                  /\ requests' = Append(requests, request)
                  /\ cleared' = FALSE
                  /\ lastEvent' = Event("handleSubmit", TRUE, request)
         /\ UNCHANGED keyVars

\* for await (const chunk of streamGenerator) { fullResponse += chunk; ... } over
\* the fragments the adapter yields in a row
RECURSIVE forAwait(_, _)
forAwait(fullResponse, fragments) ==
    IF fragments = <<>> THEN fullResponse
    ELSE forAwait(accumulate(fullResponse, Head(fragments)), Tail(fragments))

\* What the response stream of request r can deliver next and what the adapter
\* makes of it.  callGeminiStream takes a chunk of the SDK and yields its text
\* unless that is empty; callOpenAIStream takes a value of reader.read() and
\* runs one turn of its read loop.
reads(E, r) ==
    IF r.adapter = "callGeminiStream"
    THEN {[value |-> chunkText, buffer |-> r.buffer, done |-> FALSE,
           yields |-> IF yieldsFragment(r.adapter, chunkText) THEN <<chunkText>> ELSE <<>>] :
             chunkText \in {c \in ChunkTexts :
                               \E stream \in E.streams : IsPrefix(Append(r.received, c), stream)}}
    ELSE {[readValue(r.buffer, value) EXCEPT !.value = value] :
             value \in {p \in UNION {{SubSeq(body, Len(r.received) + 1, k) :
                                         k \in (Len(r.received) + 1)..Len(body)} :
                                       body \in {b \in E.bodies : IsPrefix(r.received, b)}} :
                          p \in E.pieces}}

\* the closure of handleSubmit and the state of its adapter after a read
after(r, read) ==
    [r EXCEPT !.fullResponse = forAwait(@, read.yields),
              !.received = IF r.adapter = "callGeminiStream"
                           THEN Append(@, read.value) ELSE @ \o read.value,
              !.buffer = read.buffer,
              !.yielded = @ \o read.yields]

\* mutant: setStreamingMessage(chunk) instead of setStreamingMessage(fullResponse)
streamChunkShowsChunkOnly(E) ==
    \E i \in 1..Len(requests) : \E read \in reads(E, requests[i]) :
        /\ ~read.done
        /\ requests' = [requests EXCEPT ![i] = after(requests[i], read)]
        /\ streamingMessage' = IF read.yields # <<>> THEN Concat(read.yields)
                                ELSE streamingMessage
        /\ lastEvent' = Event("streamChunk", read.yields # <<>>, requests'[i])
        /\ UNCHANGED <<homeVars, keyVars, input, isLoading, isStreaming, now, cleared>>

\* one chunk of the response stream reaches the adapter, which yields what it
\* extracts to the for await loop of handleSubmit and waits for the next chunk
streamChunk(E) ==
    \E i \in 1..Len(requests) : \E read \in reads(E, requests[i]) :
        /\ ~read.done
        /\ requests' = [requests EXCEPT ![i] = after(requests[i], read)]
        /\ streamingMessage' = IF read.yields # <<>> THEN requests'[i].fullResponse
                                ELSE streamingMessage
        /\ lastEvent' = Event("streamChunk", read.yields # <<>>, requests'[i])
        /\ UNCHANGED <<homeVars, keyVars, input, isLoading, isStreaming, now, cleared>>

\* mutant: setStreamingMessage('') is missing
finallyKeepsBuffer ==
    /\ isLoading' = FALSE
    /\ isStreaming' = FALSE
    /\ streamingMessage' = streamingMessage

\* mutant: setIsLoading(false) is missing
finallyStillLoading ==
    /\ isLoading' = isLoading
    /\ isStreaming' = FALSE
    /\ streamingMessage' = <<>>

\* mutant: setIsStreaming(false) is missing
finallyStillStreaming ==
    /\ isLoading' = FALSE
    /\ isStreaming' = isStreaming
    /\ streamingMessage' = <<>>

\* the finally block
finally ==
    /\ isLoading' = FALSE
    /\ isStreaming' = FALSE
    /\ streamingMessage' = <<>>

\* the adapter's sequence ends, because the response stream is done or because
\* callOpenAIStream meets the [DONE] line in the value it reads: the assistant
\* message is committed
streamEnd(E) ==
    \E i \in 1..Len(requests), ok \in E.writes, t \in Later(E.instants) :
        \E r \in {requests[i]} \cup
                  {after(requests[i], read) : read \in {d \in reads(E, requests[i]) : d.done}} :
            LET assistantMessage ==
                    Message(r.assistantMessageId, "assistant", r.fullResponse, Date(t))
            IN  /\ setMessages(commit(r.newMessages, assistantMessage), ok)
                /\ finally
                /\ now' = t
                /\ requests' = RemoveAt(requests, i)
                /\ lastEvent' = Event("streamEnd", TRUE, r)
                /\ UNCHANGED <<keyVars, input, cleared>>

\* mutant: the catch block invokes the adapter again instead of giving up
streamThrowRetrying(E) ==
    \E i \in 1..Len(requests), thrown \in E.thrownValues :
        /\ requests' = [requests EXCEPT ![i].received = <<>>, ![i].buffer = <<>>]
        /\ lastEvent' = Event("streamThrow", thrown.isError, requests[i])
        /\ UNCHANGED <<homeVars, keyVars, chatVars, now, cleared>>

\* the adapter raises: the catch block commits the error message
streamThrow(E) ==
    \E i \in 1..Len(requests), thrown \in E.thrownValues, ok \in E.writes, t \in Later(E.instants) :
        LET r == requests[i]
            errorMessage == Message(t + 1, "assistant", errorContent(thrown), Date(t))
        IN  /\ setMessages(commit(r.newMessages, errorMessage), ok)
            /\ finally
            /\ now' = t
            /\ requests' = RemoveAt(requests, i)
            /\ lastEvent' = Event("streamThrow", thrown.isError, r)
            /\ UNCHANGED <<keyVars, input, cleared>>

\* The body of an OpenAI response with a non-success status, as the sequence of
\* its units.  {"error":{"message":"  and  "}}  around the text of the message
ErrorOpen == "{\"error\":{\"message\":\""
ErrorClose == "\"}}"
EmptyObject == "{}"
NullText == "null"
Html == "<html>"

\* the bodies of non-success answers: an error with a message, an error with
\* the message '', an error without message, an object without error, the JSON
\* null, a page of a gateway that is no JSON, and no body at all
ErrorBodies ==
    {<<ErrorOpen, "4", "0", "1", ErrorClose>>, <<ErrorOpen, ErrorClose>>, <<NoFields>>,
     <<EmptyObject>>, <<NullText>>, <<Html>>, <<>>}

\* the message of the SyntaxError that response.json() rejects with and of the
\* TypeError of reading a property of null; the wording is the engine's
SyntaxErrorMessage == <<"Unexpected token '<', \"<html>\" is not valid JSON">>
TypeErrorMessage == <<"Cannot read properties of null (reading 'error')">>

OpenAIApiError ==
    <<"O", "p", "e", "n", "A", "I", " ", "A", "P", "I", " ", "e", "r", "r", "o", "r">>

\* await response.json(): the value the body denotes, with what error.error?.message
\* reads from it (message <<>> is '' or undefined, both falsy), or the promise
\* rejected
responseJson(body) ==
    IF Len(body) >= 2 /\ Head(body) = ErrorOpen /\ body[Len(body)] = ErrorClose
    THEN [kind |-> "object", message |-> SubSeq(body, 2, Len(body) - 1)]
    ELSE IF body \in {<<NoFields>>, <<EmptyObject>>}
    THEN [kind |-> "object", message |-> <<>>]
    ELSE IF body = <<NullText>>
    THEN [kind |-> "null", message |-> <<>>]
    ELSE [kind |-> "rejected", message |-> <<>>]

\* if (!response.ok) { const error = await response.json();
\*                      throw new Error(error.error?.message || 'OpenAI API error'); }
\* the value callOpenAIStream raises, rethrown by its catch block
notOkRaises(body) ==
    LET parsed == responseJson(body)
    IN  IF parsed.kind = "rejected" THEN [isError |-> TRUE, message |-> SyntaxErrorMessage]
        ELSE IF parsed.kind = "null" THEN [isError |-> TRUE, message |-> TypeErrorMessage]
        ELSE [isError |-> TRUE,
              message |-> IF parsed.message # <<>> THEN parsed.message ELSE OpenAIApiError]

\* the fetch of callOpenAIStream resolves with a non-success status: the adapter
\* raises before it takes the reader of the body, and the catch block of
\* handleSubmit commits the error message
responseNotOk(E) ==
    \E i \in 1..Len(requests), body \in ErrorBodies, ok \in E.writes, t \in Later(E.instants) :
        LET r == requests[i]
            errorMessage == Message(t + 1, "assistant", errorContent(notOkRaises(body)), Date(t))
        IN  /\ r.adapter = "callOpenAIStream"
            /\ r.received = <<>>
            /\ setMessages(commit(r.newMessages, errorMessage), ok)
            /\ finally
            /\ now' = t
            /\ requests' = RemoveAt(requests, i)
            /\ lastEvent' = Event("responseNotOk", TRUE, [r EXCEPT !.received = body])
            /\ UNCHANGED <<keyVars, input, cleared>>

\* mutant: Clear Chat also drops the call in flight
handleClearChatCancelling(E) ==
    /\ Len(messages) > 0
    /\ \E ok \in E.writes : setMessages(<<>>, ok)
    /\ cleared' = TRUE
    /\ requests' = <<>>
    /\ lastEvent' = Event("handleClearChat", TRUE, NoRequest)
    /\ UNCHANGED <<keyVars, chatVars, now>>

\* the Clear Chat button is rendered only when messages.length > 0
handleClearChat(E) ==
    /\ Len(messages) > 0
    /\ \E ok \in E.writes : setMessages(<<>>, ok)
    /\ cleared' = TRUE
    /\ lastEvent' = Event("handleClearChat", TRUE, NoRequest)
    /\ UNCHANGED <<keyVars, chatVars, requests, now>>

----------------------------------------------------------------------------
(* Specifications *)

NextE(E) ==
    \/ onModelChange(E)
    \/ onKeyChange(E)
    \/ handleSave(E)
    \/ handleClear(E)
    \/ onInputChange(E)
    \/ handleSubmit(E)
    \/ streamChunk(E)
    \/ streamEnd(E)
    \/ streamThrow(E)
    \/ handleClearChat(E)

\* The conversation loop in depth: every input text, stream and raised value, one
\* key text that both providers accept, a localStorage that stores.  No handler
\* branches on the clock, which only numbers and dates the messages: it shows
\* one instant here.
Next == NextE(Env({TRUE}, {KeySkLong}, InputTexts, Streams, ThrownValues, {0}))

Spec == Init /\ [][Next]_vars

\* The key store in depth: every key text, with one input text, one stream and
\* one raised value.
NextKeys ==
    NextE(Env({TRUE}, KeyTexts, {<<"h", "i">>}, {<<<<"a">>>>},
              {[isError |-> TRUE, message |-> <<"4", "0", "1">>]}, {0}))

SpecKeys == Init /\ [][NextKeys]_vars

\* Persistence in depth: localStorage.setItem may raise.
NextStorage ==
    NextE(Env(BOOLEAN, {KeySkLong}, {<<"h", "i">>}, {<<<<"a">>>>},
              {[isError |-> TRUE, message |-> <<"4", "0", "1">>]}, {0}))

SpecStorage == Init /\ [][NextStorage]_vars

\* Loading in depth: the page is loaded over every stored content and can be
\* reloaded at any moment; a page whose render raised runs no handler.
\* The clock in depth: every handler that reads Date.now() reads the instant of
\* the last reading or a later one.
NextClock ==
    NextE(Env({TRUE}, {KeySkLong}, {<<"h", "i">>}, {<<<<"a">>>>},
              {[isError |-> TRUE, message |-> <<"4", "0", "1">>]}, Instants))

SpecClock == Init /\ [][NextClock]_vars

\* Progress of the conversation loop: the sequence of an adapter that was invoked
\* terminates, by its end or by raising, and the continuation of handleSubmit
\* (the commit or the catch block, then the finally block) is then run by the
\* event loop.
EnvLive ==
    Env({TRUE}, {KeySkLong}, {<<"h", "i">>}, {<<<<"a">>>>},
        {[isError |-> TRUE, message |-> <<"4", "0", "1">>]}, {0})

NextLive == NextE(EnvLive)

SpecLive ==
    Init /\ [][NextLive]_vars /\ WF_vars(streamEnd(EnvLive) \/ streamThrow(EnvLive))

\* The adapters in depth: OpenAI bodies with events of every kind, cut by the
\* network between any two units; a Gemini stream with a chunk without text.
EnvSSE ==
    [Env({TRUE}, {KeySkLong}, {<<"h", "i">>}, {<<<<>>, <<"a">>>>},
         {[isError |-> TRUE, message |-> <<"4", "0", "1">>]}, {0})
       EXCEPT !.bodies = Bodies, !.pieces = Pieces(Bodies)]

NextSSE == NextE(EnvSSE)

SpecSSE == Init /\ [][NextSSE]_vars

\* The format checks in depth: the key panel alone, with the key texts at the
\* edges of the checks.
EnvValidate ==
    Env({TRUE}, KeyEdgeTexts, {<<"h", "i">>}, {<<<<"a">>>>},
        {[isError |-> TRUE, message |-> <<"4", "0", "1">>]}, {0})

NextValidate ==
    \/ onModelChange(EnvValidate)
    \/ onKeyChange(EnvValidate)
    \/ handleSave(EnvValidate)
    \/ handleClear(EnvValidate)

SpecValidate == Init /\ [][NextValidate]_vars

\* The reads of callOpenAIStream in depth: the bodies above and a body with an
\* event behind [DONE], cut by the network between any two units.
BodiesSplit == Bodies \cup {BodyAfterDone}

EnvSplit ==
    [Env({TRUE}, {KeySkLong}, {<<"h", "i">>}, {<<<<"a">>>>},
         {[isError |-> TRUE, message |-> <<"4", "0", "1">>]}, {0})
       EXCEPT !.bodies = BodiesSplit, !.pieces = Pieces(BodiesSplit)]

NextSplit == NextE(EnvSplit)

SpecSplit == Init /\ [][NextSplit]_vars

\* The non-success answers of OpenAI in depth.
EnvStatus ==
    Env({TRUE}, {KeySkLong}, {<<"h", "i">>}, {<<<<"a">>>>},
        {[isError |-> TRUE, message |-> <<"4", "0", "1">>]}, {0})

NextStatus == NextE(EnvStatus) \/ responseNotOk(EnvStatus)

SpecStatus == Init /\ [][NextStatus]_vars

EnvLoad ==
    Env({TRUE}, {KeySkLong}, {<<"h", "i">>}, {<<<<"a">>>>},
        {[isError |-> TRUE, message |-> <<"4", "0", "1">>]}, {0})

NextLoad ==
    \/ load(EnvLoad)
    \/ renders /\ onModelChange(EnvLoad)
    \/ renders /\ onKeyChange(EnvLoad)
    \/ renders /\ handleSave(EnvLoad)
    \/ renders /\ handleClear(EnvLoad)
    \/ renders /\ onInputChange(EnvLoad)
    \/ renders /\ handleSubmit(EnvLoad)
    \/ renders /\ streamChunk(EnvLoad)
    \/ renders /\ streamEnd(EnvLoad)
    \/ renders /\ streamThrow(EnvLoad)
    \/ renders /\ handleClearChat(EnvLoad)

SpecLoad == InitLoad /\ [][NextLoad]_vars

----------------------------------------------------------------------------
(* Claims *)

Last(seq) == seq[Len(seq)]

\* the persisted conversation as the next first load reads it
persistedMessages == ReadStored(localStorage["chatbot-messages"], <<>>)

\* C1: when the adapter's sequence ends normally, the assistant message that is
\* committed is the last message of the Conversation and its text is the
\* concatenation, in the order received, of the fragments the adapter yielded.
C1_AssistantTextIsConcatenation ==
    lastEvent.op = "streamEnd" =>
        /\ messages # <<>>
        /\ Last(messages).role = "assistant"
        /\ Last(messages).content = Concat(lastEvent.req.yielded)

\* a stream of two different fragments has ended, on the Gemini adapter
C1_Witness ==
    /\ lastEvent.op = "streamEnd"
    /\ lastEvent.req.adapter = "callGeminiStream"
    /\ lastEvent.req.yielded = <<<<"a">>, <<"b">>>>
    /\ Last(messages).content = <<"a", "b">>

\* C2: once the chat was cleared, the Conversation and the persisted conversation
\* are empty until the next accepted submit, whether the clear was taken while
\* Idle or while a response was in flight.
C2_ClearedStaysEmpty ==
    cleared => messages = <<>> /\ persistedMessages = <<>>

\* C3: a submit with an empty or whitespace-only input appends no message, invokes
\* no adapter and leaves the loop as it was (Idle stays Idle), whatever the
\* credentials and the selected provider are.
C3_BlankInputRejected ==
    [][(lastEvent'.op = "handleSubmit" /\ trim(input) = <<>>) =>
          /\ ~lastEvent'.ok
          /\ messages' = messages
          /\ localStorage' = localStorage
          /\ requests' = requests
          /\ isLoading' = isLoading /\ isStreaming' = isStreaming]_vars

\* a submit of a whitespace-only input was rejected while the key was set and no
\* request was in flight
C3_Witness ==
    /\ lastEvent.op = "handleSubmit" /\ ~lastEvent.ok
    /\ input = <<" ">>
    /\ currentApiKey # <<>>
    /\ ~isLoading /\ requests = <<>>

\* C4: a submit while the selected provider's credential is the empty string
\* appends no message and invokes no adapter, whatever the input is.
C4_EmptyCredentialRejected ==
    [][(lastEvent'.op = "handleSubmit" /\ currentApiKey = <<>>) =>
          /\ ~lastEvent'.ok
          /\ messages' = messages
          /\ localStorage' = localStorage
          /\ requests' = requests]_vars

\* a submit of a non-blank input was rejected, with no request in flight, after
\* Clear Key had stored the empty credential of the selected provider
C4_Witness ==
    /\ lastEvent.op = "handleSubmit" /\ ~lastEvent.ok
    /\ trim(input) # <<>>
    /\ ~isLoading
    /\ currentApiKey = <<>>
    /\ LET item == localStorage[IF modelProvider = "openai"
                                THEN "openai-api-key" ELSE "gemini-api-key"]
       IN  item.present /\ item.text.value = <<>>

\* C5: when the adapter raises, the Conversation holds, after the user message of
\* that submit, exactly one message, an assistant message with an error text, and
\* the loop is Idle again: nothing is in flight and a submit is accepted.
C5_OneErrorMessageThenIdle ==
    lastEvent.op = "streamThrow" =>
        LET n == Len(lastEvent.req.prior) IN
        /\ Len(messages) = n + 2
        /\ messages[n + 1].role = "user"
        /\ messages[n + 2].role = "assistant"
        /\ startsWith(messages[n + 2].content, ErrorPrefix)
        /\ ~isLoading /\ ~isStreaming /\ streamingMessage = <<>>
        /\ requests = <<>>
        /\ (trim(input) # <<>> /\ currentApiKey # <<>> => submitAccepted)

\* the adapter raised for a submit that was accepted after an earlier failure
C5_Witness ==
    /\ lastEvent.op = "streamThrow"
    /\ Len(messages) = 4
    /\ startsWith(messages[2].content, ErrorPrefix)
    /\ startsWith(messages[4].content, ErrorPrefix)

\* C6: a submit of input t with Conversation C whose adapter ends normally results
\* in C followed by the user message with text trim(t) and the assistant message
\* with the accumulated text: two messages appended, C unchanged and in order.
C6_SubmitAppendsUserThenAssistant ==
    lastEvent.op = "streamEnd" =>
        LET r == lastEvent.req
            n == Len(r.prior)
        IN  /\ Len(messages) = n + 2
            /\ SubSeq(messages, 1, n) = r.prior
            /\ messages[n + 1].role = "user"
            /\ messages[n + 1].content = trim(r.typed)
            /\ messages[n + 2].role = "assistant"
            /\ messages[n + 2].content = Concat(r.yielded)

\* a submit of " hi " on a Conversation of two messages has ended normally
C6_Witness ==
    /\ lastEvent.op = "streamEnd"
    /\ Len(lastEvent.req.prior) = 2
    /\ lastEvent.req.typed = <<" ", "h", "i", " ">>
    /\ Len(messages) = 4
    /\ messages[3].content = <<"h", "i">>

\* the error text for a raised Error with message "401" and for any other value
ExpectedErrorText(isError) ==
    IF isError
    THEN <<"E", "r", "r", "o", "r", ":", " ", "4", "0", "1">>
    ELSE <<"E", "r", "r", "o", "r", ":", " ", "U", "n", "k", "n", "o", "w", "n", " ",
           "e", "r", "r", "o", "r", " ", "o", "c", "c", "u", "r", "r", "e", "d">>

\* C7: when the adapter raises after k >= 0 fragments, the Conversation is the
\* prior Conversation, the user message and one assistant message whose text is
\* the error description; no fragment is part of it.
C7_ErrorAfterFragments ==
    lastEvent.op = "streamThrow" =>
        LET r == lastEvent.req
            n == Len(r.prior)
        IN  /\ Len(messages) = n + 2
            /\ SubSeq(messages, 1, n) = r.prior
            /\ messages[n + 1].role = "user"
            /\ messages[n + 1].content = trim(r.typed)
            /\ messages[n + 2].role = "assistant"
            /\ messages[n + 2].content = ExpectedErrorText(lastEvent.ok)

\* the adapter raised a value that is no Error after it had yielded two fragments
C7_Witness ==
    /\ lastEvent.op = "streamThrow"
    /\ ~lastEvent.ok
    /\ Len(lastEvent.req.yielded) = 2
    /\ Last(messages).content = ExpectedErrorText(FALSE)

\* C8: at most one request is in flight; a submit while one is in flight appends
\* nothing and invokes no adapter; a request starts only in an accepted submit
\* taken while none is in flight, so a rejected submit is not taken up when the
\* loop returns to Idle.
C8_OneRequestInFlight ==
    [][/\ Len(requests') <= 1
       /\ (lastEvent'.op = "handleSubmit" /\ isLoading) =>
              /\ ~lastEvent'.ok
              /\ messages' = messages
              /\ requests' = requests
       /\ Len(requests') > Len(requests) =>
              lastEvent'.op = "handleSubmit" /\ lastEvent'.ok /\ ~isLoading
       /\ lastEvent'.op \in {"streamEnd", "streamThrow"} => requests' = <<>>]_vars

\* a submit of a non-blank input with the key set was rejected while a request
\* was in flight
C8_Witness ==
    /\ lastEvent.op = "handleSubmit" /\ ~lastEvent.ok
    /\ trim(input) # <<>>
    /\ currentApiKey # <<>>
    /\ isLoading /\ Len(requests) = 1

\* the key stored under the provider an adapter belongs to
storedKeyOf(adapter) == IF adapter = "callOpenAIStream" THEN openaiApiKey ELSE geminiApiKey

\* C9: an adapter is invoked with the key stored, at the moment of the submit,
\* under its own provider, and the key of a request in flight does not change
\* when the provider is switched or a key is saved or cleared.
C9_KeyGoesToItsProvider ==
    [][/\ (lastEvent'.op = "handleSubmit" /\ lastEvent'.ok) =>
              /\ Last(requests').apiKey = storedKeyOf(Last(requests').adapter)
              /\ Last(requests').adapter =
                    (IF modelProvider = "openai" THEN "callOpenAIStream" ELSE "callGeminiStream")
       /\ (Len(requests) = 1 /\ Len(requests') = 1) =>
              /\ requests'[1].apiKey = requests[1].apiKey
              /\ requests'[1].adapter = requests[1].adapter]_vars

\* the Gemini adapter is in flight with the Gemini key while the user has
\* switched to OpenAI, whose stored key is a different one
C9_Witness ==
    /\ Len(requests) = 1
    /\ requests[1].adapter = "callGeminiStream"
    /\ requests[1].apiKey = KeyPlainLong
    /\ modelProvider = "openai"
    /\ openaiApiKey = KeySkShort
    /\ geminiApiKey = <<>>

\* the item of a key holds the JSON text of the value in memory; a key that was
\* never set has no item and the value in memory is the default
InSync(key, text, isDefault) ==
    IF localStorage[key].present THEN localStorage[key].text = text ELSE isDefault

AllInSync ==
    /\ InSync("chatbot-model", JSONstringifyString(modelProvider), modelProvider = "openai")
    /\ InSync("openai-api-key", JSONstringifyString(openaiApiKey), openaiApiKey = <<>>)
    /\ InSync("gemini-api-key", JSONstringifyString(geminiApiKey), geminiApiKey = <<>>)
    /\ InSync("chatbot-messages", JSONstringifyMessages(messages), messages = <<>>)

C11_ReadBackEqualsWritten ==
    [][(/\ lastEvent'.op = "load"
        /\ localStorage["chatbot-messages"] =
              [present |-> TRUE, text |-> JSONstringifyMessages(messages)])
         => messages' = messages /\ renders']_vars

\* the item of a key holds a text that JSON.parse accepts
Parseable(key) ==
    /\ localStorage[key].present
    /\ localStorage[key].text.kind \notin {"empty", "invalid"}

\* C12: when the page has been loaded, each of the four values is the parsed
\* stored value if its key has an item that parses, and its default if the key
\* is absent, empty or unparseable: 'openai', '', '' and []; the load completes
\* for every stored content.
C12_LoadReadsStoredOrDefault ==
    lastEvent.op = "load" =>
        /\ modelProvider = (IF Parseable("chatbot-model")
                            THEN localStorage["chatbot-model"].text.value ELSE "openai")
        /\ openaiApiKey = (IF Parseable("openai-api-key")
                           THEN localStorage["openai-api-key"].text.value ELSE <<>>)
        /\ geminiApiKey = (IF Parseable("gemini-api-key")
                           THEN localStorage["gemini-api-key"].text.value ELSE <<>>)
        /\ messages = (IF Parseable("chatbot-messages")
                       THEN localStorage["chatbot-messages"].text.value ELSE <<>>)

\* the page was reloaded, after a submit, over a provider item that is not JSON,
\* the OpenAI key a Save Key stored, an empty Gemini key item and the
\* Conversation the submit stored
C12_Witness ==
    /\ lastEvent.op = "load"
    /\ localStorage["chatbot-model"] = [present |-> TRUE, text |-> [kind |-> "invalid"]]
    /\ modelProvider = "openai"
    /\ openaiApiKey = KeySkLong
    /\ localStorage["gemini-api-key"] = [present |-> TRUE, text |-> [kind |-> "empty"]]
    /\ geminiApiKey = <<>>
    /\ Len(messages) = 2
    /\ messages[1].id = 0

\* the format check as the claims word it: a key is blank, or it is an OpenAI
\* key that does not start with sk-, or a Gemini key of at most 10 characters
FailsFormatCheck(provider, text) ==
    \/ trim(text) = <<>>
    \/ provider = "openai" /\ (Len(text) < 3 \/ <<text[1], text[2], text[3]>> # <<"s", "k", "-">>)
    \/ provider = "gemini" /\ Len(text) <= 10

\* C13: a Save Key whose input fails the format check of the selected provider
\* leaves both stored credentials and the whole localStorage unchanged, sets the
\* inline error and invokes no adapter.
C13_InvalidSaveKeyRejected ==
    [][(lastEvent'.op = "handleSave" /\ FailsFormatCheck(modelProvider, inputValue)) =>
          /\ ~lastEvent'.ok
          /\ openaiApiKey' = openaiApiKey
          /\ geminiApiKey' = geminiApiKey
          /\ localStorage' = localStorage
          /\ error' # ""
          /\ requests' = requests]_vars

\* a Save Key of a text without the sk- prefix was rejected while OpenAI was
\* selected, with another OpenAI key stored and a request in flight
C13_Witness ==
    /\ lastEvent.op = "handleSave" /\ ~lastEvent.ok
    /\ modelProvider = "openai"
    /\ inputValue = KeyPlainLong
    /\ openaiApiKey = KeySkLong
    /\ error = "Please enter a valid OpenAI API key (starts with sk-)"
    /\ Len(requests) = 1

\* C14: in every reachable state no two Messages of the Conversation have the
\* same id, whatever the instants of the submits, stream ends and errors are.
C14_IdsUnique ==
    \A i, j \in 1..Len(messages) : i # j => messages[i].id # messages[j].id

\* C15: in every step that is not the clear action the Conversation before the
\* step is a prefix of the Conversation after it, so no Message is modified,
\* removed or moved; the Conversation gets shorter only by the clear action.
C15_AppendOnly ==
    [][/\ lastEvent'.op # "handleClearChat" => IsPrefix(messages, messages')
       /\ Len(messages') < Len(messages) => lastEvent'.op = "handleClearChat"]_vars

\* the answer to a second submit was committed behind the two messages of
\* a first exchange, which had failed, and the second user message
C15_Witness ==
    /\ lastEvent.op = "streamEnd"
    /\ Len(lastEvent.req.prior) = 2
    /\ Len(messages) = 4
    /\ SubSeq(messages, 1, 3) = lastEvent.req.newMessages
    /\ messages[2].content = ExpectedErrorText(TRUE)

\* the loop is Idle and the transient buffer is empty
Idle == ~isLoading /\ ~isStreaming /\ streamingMessage = <<>> /\ requests = <<>>

\* C16: every accepted submit is eventually followed by the loop being Idle with
\* the transient buffer empty, given that the adapter's sequence terminates, by
\* its end or by raising.
C16_SubmitLeadsToIdle ==
    (lastEvent.op = "handleSubmit" /\ lastEvent.ok) ~> Idle

\* a request is in flight whose adapter has yielded a fragment into the buffer,
\* on a Conversation that the user cleared after the submit
C16_Witness ==
    /\ isLoading /\ isStreaming
    /\ Len(requests) = 1
    /\ streamingMessage = <<"a">>
    /\ messages = <<>>

\* the lines of a body and the text delta that each line carries, as the bodies
\* were put together
LinesOf(body) == IF body = BodyDone THEN LinesDone ELSE LinesOpenEnd
TextsOf(body) ==
    IF body = BodyDone THEN << <<"a">>, <<>>, <<>> >>
    ELSE << <<>>, <<>>, <<>>, <<"a">>, <<"b">> >>

\* the texts, in order, of the lines that carry text and lie, with the newline
\* that ends them, within the first n units of a body
RECURSIVE TextsWithin(_, _, _)
TextsWithin(lines, texts, n) ==
    IF lines = <<>> THEN <<>>
    ELSE IF Len(Head(lines)) > n \/ Last(Head(lines)) # NL THEN <<>>
    ELSE (IF Head(texts) # <<>> THEN <<Head(texts)>> ELSE <<>>)
             \o TextsWithin(Tail(lines), Tail(texts), n - Len(Head(lines)))

HasText(chunkText) == chunkText # <<>>

\* the adapter of request r has yielded the text of every chunk with text that
\* it has received, in order, and nothing else; a chunk of callOpenAIStream is
\* a line of the body
YieldedAsExpected(r) ==
    IF r.adapter = "callGeminiStream"
    THEN r.yielded = SelectSeq(r.received, HasText)
    ELSE \A body \in Bodies :
            IsPrefix(r.received, body) =>
                r.yielded = TextsWithin(LinesOf(body), TextsOf(body), Len(r.received))

\* C17: for both adapters a chunk without extractable text (an empty or missing
\* text delta, for OpenAI also a data line that is not JSON or lacks the fields)
\* yields no fragment, raises nothing and does not end the sequence: the request
\* stays in flight, the Conversation and the response so far are unchanged, and
\* the chunks with text that come later are yielded, in order.
C17_ChunkWithoutTextIsSkipped ==
    [][/\ lastEvent'.op \in {"streamChunk", "streamEnd"} => YieldedAsExpected(lastEvent'.req)
       /\ (lastEvent'.op = "streamChunk" /\ ~lastEvent'.ok) =>
              /\ Len(requests') = 1 /\ isLoading' /\ isStreaming'
              /\ requests'[1].fullResponse = requests[1].fullResponse
              /\ streamingMessage' = streamingMessage
              /\ messages' = messages]_vars

\* callOpenAIStream has yielded the delta that followed a delta without content,
\* a line that is not JSON and an object without choices
C17_Witness ==
    /\ lastEvent.op = "streamChunk" /\ lastEvent.ok
    /\ Len(requests) = 1
    /\ requests[1].adapter = "callOpenAIStream"
    /\ requests[1].received = Concat(SubSeq(LinesOpenEnd, 1, 4))
    /\ requests[1].yielded = << <<"a">> >>
    /\ streamingMessage = <<"a">>

\* C18: when callOpenAIStream has ended on a body that it received whole, the
\* concatenation of the fragments it yielded is the full response text: the
\* deltas of all the data lines of the body before [DONE] or the end of the
\* stream, the last line included when no newline follows it.
C18_OpenAIYieldsFullResponse ==
    (lastEvent.op = "streamEnd" /\ lastEvent.req.adapter = "callOpenAIStream") =>
        \A body \in Bodies :
            lastEvent.req.received = body =>
                /\ Concat(lastEvent.req.yielded) = Concat(TextsOf(body))
                /\ Last(messages).content = Concat(TextsOf(body))

\* C19: a Save Key stores, under the selected provider, only a text that was
\* entered while that provider was selected: a text entered for one provider
\* does not become the other provider's credential by a switch of the provider
\* and a Save Key.
C19_SavedKeyWasEnteredForItsProvider ==
    [][(lastEvent'.op = "handleSave" /\ lastEvent'.ok) => enteredFor = modelProvider]_vars

\* the handlers the user calls
UserActions ==
    {"onModelChange", "onKeyChange", "handleSave", "handleClear", "onInputChange",
     "handleSubmit", "handleClearChat"}

\* C20: while a request is in flight no user action cancels or redirects it: a
\* provider switch, a key save or clear, a Clear Chat and a further submit leave
\* it as it is, a chunk leaves its adapter, credential and message list as
\* captured at the submit, and it ends only by the end of the adapter's sequence
\* or by the adapter raising.
C20_NoCancellation ==
    [][Len(requests) = 1 =>
          /\ lastEvent'.op \in UserActions => requests' = requests
          /\ lastEvent'.op = "streamChunk" =>
                /\ Len(requests') = 1
                /\ requests'[1].adapter = requests[1].adapter
                /\ requests'[1].apiKey = requests[1].apiKey
                /\ requests'[1].sent = requests[1].sent
                /\ requests'[1].newMessages = requests[1].newMessages
          /\ requests' = <<>> =>
                /\ lastEvent'.op \in {"streamEnd", "streamThrow"}
                /\ lastEvent'.req.adapter = requests[1].adapter
                /\ lastEvent'.req.apiKey = requests[1].apiKey
                /\ lastEvent'.req.sent = requests[1].sent]_vars

\* the Gemini adapter yields a fragment for the submit it was invoked for, after
\* the user has cleared the chat, cleared the Gemini key and selected OpenAI
C20_Witness ==
    /\ lastEvent.op = "streamChunk" /\ lastEvent.ok
    /\ lastEvent.req.adapter = "callGeminiStream"
    /\ lastEvent.req.apiKey = KeyPlainLong
    /\ Len(lastEvent.req.sent) = 1
    /\ modelProvider = "openai"
    /\ geminiApiKey = <<>>
    /\ cleared /\ messages = <<>>

\* the role and the text of each message of a list, in order
RolesAndTexts(ms) == [i \in 1..Len(ms) |-> [role |-> ms[i].role, content |-> ms[i].content]]

\* the step is an accepted submit that appends the user message with the trimmed
\* input to the Conversation, clears the input and invokes the adapter, which has
\* consumed nothing yet, with the Conversation at the submit followed by that
\* user message
SubmitAppendsThenInvokes ==
    LET r == lastEvent'.req IN
    /\ Len(messages') = Len(messages) + 1
    /\ SubSeq(messages', 1, Len(messages)) = messages
    /\ Last(messages').role = "user"
    /\ Last(messages').content = trim(input)
    /\ input' = <<>>
    /\ requests' = <<r>>
    /\ r.received = <<>> /\ r.yielded = <<>> /\ r.fullResponse = <<>>
    /\ r.sent = RolesAndTexts(messages')

\* the item of the Conversation holds the JSON text of the Conversation
ConversationPersisted ==
    localStorage["chatbot-messages"] = [present |-> TRUE, text |-> JSONstringifyMessages(messages)]

adapterOf(provider) == IF provider = "openai" THEN "callOpenAIStream" ELSE "callGeminiStream"

\* C22: an accepted submit invokes one adapter once, the adapter of the provider
\* selected at the submit; no other step invokes an adapter: a request in flight
\* keeps its adapter and goes on from what it has received, and the step in
\* which an adapter fails or ends removes its request and starts none, so a
\* failed call is not retried.
C22_OneInvocationPerSubmit ==
    [][/\ (lastEvent'.op = "handleSubmit" /\ lastEvent'.ok) =>
              /\ requests' = Append(requests, lastEvent'.req)
              /\ lastEvent'.req.adapter = adapterOf(modelProvider)
              /\ lastEvent'.req.received = <<>>
       /\ ~(lastEvent'.op = "handleSubmit" /\ lastEvent'.ok) =>
              /\ Len(requests') <= Len(requests)
              /\ Len(requests') = Len(requests) =>
                    \A i \in 1..Len(requests) :
                        /\ requests'[i].adapter = requests[i].adapter
                        /\ requests'[i].sent = requests[i].sent
                        /\ IsPrefix(requests[i].received, requests'[i].received)
       /\ lastEvent'.op \in {"streamEnd", "streamThrow"} =>
              /\ Len(requests') = Len(requests) - 1
              /\ \A i \in 1..Len(requests') : requests'[i] \in {requests[j] : j \in 1..Len(requests)}]_vars

\* the Gemini adapter, invoked by a submit taken while Gemini was selected, has
\* failed after the user switched to OpenAI: its error message is committed and
\* no adapter is in flight
C22_Witness ==
    /\ lastEvent.op = "streamThrow"
    /\ lastEvent.req.adapter = "callGeminiStream"
    /\ modelProvider = "openai"
    /\ openaiApiKey = KeySkLong
    /\ requests = <<>>
    /\ Len(messages) = 2
    /\ Last(messages).content = ExpectedErrorText(TRUE)

\* C23: while a request is in flight the transient buffer is the concatenation
\* of the fragments its adapter has yielded so far, and it is empty whenever no
\* request is loading; each value of the buffer is a prefix of the next one and
\* of the text of the assistant message that is committed.
C23_BufferIsFragmentsSoFar ==
    /\ [](/\ requests # <<>> => streamingMessage = Concat(Last(requests).yielded)
          /\ ~isLoading => streamingMessage = <<>>)
    /\ [][/\ lastEvent'.op = "streamChunk" => IsPrefix(streamingMessage, streamingMessage')
          /\ lastEvent'.op = "streamEnd" =>
                 /\ IsPrefix(streamingMessage, Last(messages').content)
                 /\ streamingMessage' = <<>>]_vars

\* two fragments have been received for the request in flight and the buffer
\* shows both
C23_Witness ==
    /\ Len(requests) = 1
    /\ requests[1].yielded = <<<<"a">>, <<"b">>>>
    /\ streamingMessage = <<"a", "b">>
    /\ isLoading

\* a text is blank: it is empty or has blanks only
Blank(text) == \A i \in 1..Len(text) : text[i] = " "

\* a text starts with sk-
HasSkPrefix(text) == Len(text) >= 3 /\ text[1] = "s" /\ text[2] = "k" /\ text[3] = "-"

\* C24: validateApiKey accepts a key for OpenAI exactly when it is not blank and
\* starts with sk-, for Gemini exactly when it is not blank and longer than 10
\* characters; an empty key and a key of blanks only are rejected for both.
C24_FormatCheck ==
    [][lastEvent'.op = "handleSave" =>
          /\ modelProvider = "openai" =>
                 (lastEvent'.ok <=> (~Blank(inputValue) /\ HasSkPrefix(inputValue)))
          /\ modelProvider = "gemini" =>
                 (lastEvent'.ok <=> (~Blank(inputValue) /\ Len(inputValue) > 10))
          /\ Blank(inputValue) => ~lastEvent'.ok]_vars

\* a key of eleven blanks was rejected for Gemini
C24_Witness ==
    /\ lastEvent.op = "handleSave" /\ ~lastEvent.ok
    /\ modelProvider = "gemini"
    /\ inputValue = KeyBlankLong
    /\ geminiApiKey = <<>>

\* a key passes the format check of a provider, as C24 states the check
PassesFormatCheck(provider, key) ==
    /\ ~Blank(key)
    /\ IF provider = "openai" THEN HasSkPrefix(key) ELSE Len(key) > 10

\* the provider an adapter belongs to
providerOf(adapter) == IF adapter = "callOpenAIStream" THEN "openai" ELSE "gemini"

\* the credential of a provider as localStorage holds it
storedCredential(key) == ReadStored(localStorage[key], <<>>)

\* C25: starting from an empty localStorage, the credential stored for a provider,
\* in memory and in localStorage, is empty or passes the format check of that
\* provider, and the key an adapter was invoked with passes the format check of
\* the adapter's provider.
C25_StoredCredentialsPassFormatCheck ==
    /\ openaiApiKey = <<>> \/ PassesFormatCheck("openai", openaiApiKey)
    /\ geminiApiKey = <<>> \/ PassesFormatCheck("gemini", geminiApiKey)
    /\ storedCredential("openai-api-key") = <<>>
          \/ PassesFormatCheck("openai", storedCredential("openai-api-key"))
    /\ storedCredential("gemini-api-key") = <<>>
          \/ PassesFormatCheck("gemini", storedCredential("gemini-api-key"))
    /\ \A i \in 1..Len(requests) :
           PassesFormatCheck(providerOf(requests[i].adapter), requests[i].apiKey)

\* both providers have a credential stored, each of a format the other provider
\* rejects, and the Gemini adapter is in flight with the Gemini credential
C25_Witness ==
    /\ openaiApiKey = KeySkShort
    /\ geminiApiKey = KeyPlainLong
    /\ localStorage["openai-api-key"].present
    /\ localStorage["gemini-api-key"].present
    /\ Len(requests) = 1
    /\ requests[1].adapter = "callGeminiStream"
    /\ requests[1].apiKey = KeyPlainLong

\* the body of a non-success answer carries an error message
CarriesMessage(body) ==
    Len(body) > 2 /\ Head(body) = ErrorOpen /\ body[Len(body)] = ErrorClose

\* C26: when OpenAI answers with a non-success status the adapter raises before
\* it yields a fragment, and the message of the error it raises, which the catch
\* block shows behind "Error: ", is the error message of the body when the body
\* carries one and 'OpenAI API error' otherwise, also when the body cannot be
\* parsed.
C26_NotOkRaisesProviderOrGenericMessage ==
    [][lastEvent'.op = "responseNotOk" =>
          LET body == lastEvent'.req.received
          IN  /\ lastEvent'.req.yielded = <<>>
              /\ Len(messages') = Len(lastEvent'.req.newMessages) + 1
              /\ Last(messages').content =
                     ErrorPrefix \o (IF CarriesMessage(body)
                                      THEN SubSeq(body, 2, Len(body) - 1)
                                      ELSE OpenAIApiError)]_vars

\* C27: the Gemini adapter is invoked with a list that is not empty; it gives the
\* chat all messages but the last as history, in order, a user message with the
\* role user and an assistant message with the role model, and sends the text of
\* the last message as the latest turn, which is the user message just submitted.
C27_GeminiHistoryAndLatestTurn ==
    [][(lastEvent'.op = "handleSubmit" /\ lastEvent'.ok
        /\ lastEvent'.req.adapter = "callGeminiStream") =>
          LET r == lastEvent'.req
          IN  /\ r.sent # <<>>
              /\ Len(r.history) = Len(r.sent) - 1
              /\ Len(r.history) = Len(messages)
              /\ \A i \in 1..Len(messages) :
                     /\ r.history[i].role = (IF messages[i].role = "user" THEN "user" ELSE "model")
                     /\ r.history[i].parts = <<[text |-> messages[i].content]>>
              /\ r.message = trim(input)
              /\ r.message # <<>>
              /\ Last(messages').role = "user"
              /\ Last(messages').content = r.message
              /\ Last(messages').id = lastEvent'.req.newMessages[Len(messages) + 1].id]_vars

\* the Gemini adapter was invoked on a Conversation of a user message and an
\* error message: the history has the two, the second with the role model, and
\* the latest turn is the text just submitted
C27_Witness ==
    /\ lastEvent.op = "handleSubmit" /\ lastEvent.ok
    /\ lastEvent.req.adapter = "callGeminiStream"
    /\ Len(lastEvent.req.history) = 2
    /\ lastEvent.req.history[1].role = "user"
    /\ lastEvent.req.history[2] =
           [role |-> "model", parts |-> <<[text |-> ExpectedErrorText(TRUE)]>>]
    /\ lastEvent.req.message = <<"h", "i">>

\* a text holds the whole line of the [DONE] event
DoneLineSeen(text) ==
    \E k \in 1..Len(text) : k + 2 <= Len(text) /\ SubSeq(text, k, k + 2) = <<DataPrefix, Done, NL>>

\* what callOpenAIStream makes of a text that it reads in one piece
InOneRead(text) == readValue(<<>>, text)

\* C28: the fragments callOpenAIStream has yielded, and the rest of a line it
\* keeps, are those of the text received so far read in one piece, however the
\* network has cut it into reads, also in the middle of a line; once the line
\* data: [DONE] is received the sequence ends in that step, and no line behind
\* it is yielded.
C28_FragmentsIndependentOfReads ==
    /\ \A i \in 1..Len(requests) :
           requests[i].adapter = "callOpenAIStream" =>
               /\ requests[i].yielded = InOneRead(requests[i].received).yields
               /\ requests[i].buffer = InOneRead(requests[i].received).buffer
               /\ ~DoneLineSeen(requests[i].received)
    /\ (lastEvent.op = "streamEnd" /\ lastEvent.req.adapter = "callOpenAIStream") =>
           /\ lastEvent.req.yielded = InOneRead(lastEvent.req.received).yields
           /\ IsPrefix(Concat(SubSeq(LinesAfterDone, 1, 2)), lastEvent.req.received) =>
                  /\ lastEvent.req.yielded = << <<"a">> >>
                  /\ Last(messages).content = <<"a">>

\* callOpenAIStream has ended on the body with an event behind [DONE], received
\* whole: it has yielded the delta in front of [DONE] only
C28_Witness ==
    /\ lastEvent.op = "streamEnd"
    /\ lastEvent.req.adapter = "callOpenAIStream"
    /\ lastEvent.req.received = BodyAfterDone
    /\ lastEvent.req.yielded = << <<"a">> >>
    /\ Last(messages).content = <<"a">>

\* a value of Home and its item in localStorage are left as they are
SelectionUnchanged ==
    modelProvider' = modelProvider /\ localStorage'["chatbot-model"] = localStorage["chatbot-model"]
OpenaiKeyUnchanged ==
    openaiApiKey' = openaiApiKey /\ localStorage'["openai-api-key"] = localStorage["openai-api-key"]
GeminiKeyUnchanged ==
    geminiApiKey' = geminiApiKey /\ localStorage'["gemini-api-key"] = localStorage["gemini-api-key"]
ConversationUnchanged ==
    messages' = messages /\ localStorage'["chatbot-messages"] = localStorage["chatbot-messages"]

\* C29: selecting a provider leaves both credentials and the Conversation as
\* they are, so the Conversation is shared by the providers; saving or clearing
\* a key leaves the other provider's credential, the selection and the
\* Conversation as they are; a submit and Clear Chat leave the selection and
\* both credentials as they are.
C29_Frame ==
    [][/\ lastEvent'.op = "onModelChange" =>
              OpenaiKeyUnchanged /\ GeminiKeyUnchanged /\ ConversationUnchanged
       /\ lastEvent'.op \in {"handleSave", "handleClear"} =>
              /\ SelectionUnchanged
              /\ ConversationUnchanged
              /\ IF modelProvider = "openai" THEN GeminiKeyUnchanged ELSE OpenaiKeyUnchanged
       /\ lastEvent'.op \in {"handleSubmit", "handleClearChat"} =>
              SelectionUnchanged /\ OpenaiKeyUnchanged /\ GeminiKeyUnchanged]_vars

\* a key was saved for Gemini while OpenAI has another key and the Conversation
\* holds a user message and its answer
C29_Witness ==
    /\ lastEvent.op = "handleSave" /\ lastEvent.ok
    /\ modelProvider = "gemini"
    /\ geminiApiKey = KeyPlainLong
    /\ openaiApiKey = KeySkShort
    /\ Len(messages) = 2
    /\ Last(messages).content = <<"a">>

\* the indicator rendered when isLoading && !isStreaming
Thinking == isLoading /\ ~isStreaming

\* C30: isLoading and isStreaming are equal in every reachable state: an
\* accepted submit sets both, the finally block resets both, no other step
\* touches either; the state that shows the Thinking indicator is never reached.
C30_LoadingEqualsStreaming ==
    /\ [](isLoading = isStreaming /\ ~Thinking)
    /\ [][/\ (lastEvent'.op = "handleSubmit" /\ lastEvent'.ok) => (isLoading' /\ isStreaming')
          /\ lastEvent'.op \in {"streamEnd", "streamThrow"} => (~isLoading' /\ ~isStreaming')
          /\ (~(lastEvent'.op = "handleSubmit" /\ lastEvent'.ok)
              /\ lastEvent'.op \notin {"streamEnd", "streamThrow"}) =>
                 (isLoading' = isLoading /\ isStreaming' = isStreaming)]_vars

\* a submit was just accepted and no fragment has arrived: both flags are set
\* and the buffer is empty
C30_Witness ==
    /\ lastEvent.op = "handleSubmit" /\ lastEvent.ok
    /\ isLoading /\ isStreaming
    /\ streamingMessage = <<>>
    /\ Len(requests) = 1
    /\ requests[1].received = <<>>

====
